---- MODULE Spec2Model ----
(***************************************************************************)
(* Seat-inventory reservation engine (overbookr): holds, bookings,         *)
(* cancellations, waitlist promotion and the hold-expiry worker, modelled  *)
(* over one event whose rows live in a read-committed relational store.    *)
(* Every transaction of the program takes its seat row locks in its first  *)
(* statement and keeps them until commit, so a transaction is one atomic   *)
(* step; the reads the program makes outside a transaction (idempotency    *)
(* pre-check, the expiry worker's list of holds, the promoter's list of    *)
(* waiters) are steps of their own.                                        *)
(***************************************************************************)
EXTENDS Integers, Sequences, FiniteSets, Bags, TLC

\* ---------------------------------------------------------------- bounds
NumSeats == 2

MaxHolds == 2

MaxBookings == 2

MaxRequested == 2

MaxWaiters == 2

MaxInflight == 2

MaxRuns == 1

MaxNow == 300

NumKeys == 2

NumUsers == 1

InitialCapacity == 1

MaxTxs == 2

NumCallers == 2

MaxGoroutines == 2

\* ------------------------------------------------------ program constants
defaultHoldTTLSeconds == 300

NULL == 0

createBookingMaxRetries == 3

\* initialBackoff, in milliseconds
initialBackoff == 100

\* ---------------------------------------------------------------- domains
Seats == 1..NumSeats

Users == 1..NumUsers

Roles == {"user", "admin"}

Keys == 1..NumKeys

SeatNoSets == (SUBSET Seats) \ {{}}

\* seat_nos of a request that may name a seat number the event does not have
RequestSeatNos == (SUBSET (1..(NumSeats + 1))) \ {{}}

ClockStep == defaultHoldTTLSeconds

\* the authenticated callers of the second specification
Callers == 1..NumCallers

\* the connections on which a transaction can be open at the row-lock level
TxIds == 1..MaxTxs

\* a connection with no transaction open and no reply to show
NoTx == [kind |-> "none", code |-> 0, user |-> 0, seatNos |-> {}, hold |-> 0,
         todo |-> <<>>, held |-> {}, key |-> 0, attempt |-> 0, backoff |-> 0,
         errs |-> <<>>, requested |-> 0, position |-> 0]

VARIABLES
    seats,          \* table seats: id -> row
    seat_holds,     \* table seat_holds: sequence of rows, hold_token = index
    bookings,       \* table bookings: sequence of rows, id = index
    booked_count,   \* events.booked_count of the event
    capacity,       \* events.capacity of the event
    waitlist,       \* table waitlist: sequence of rows, id = index
    now,            \* the store's clock, in seconds
    inflight,       \* CreateBooking requests past the idempotency pre-check
    expiry,         \* the hold-expiry worker: position and the rows it read
    runs,           \* promotion runs started by cancellations
    txs,            \* transactions that are taking their row locks one by one
    reconcile       \* the reconcile worker: position and the rows it read

vars == <<seats, seat_holds, bookings, booked_count, capacity, waitlist,
          now, inflight, expiry, runs, txs, reconcile>>

\* the committed rows of the store, as one record
DB == [seats |-> seats, seat_holds |-> seat_holds, bookings |-> bookings,
       booked_count |-> booked_count, waitlist |-> waitlist]

\* the outcome of a handler: its HTTP status, the id it returns, the rows it commits
Reply(code, id, db) == [code |-> code, id |-> id, db |-> db]

Commit(db) ==
    /\ seats' = db.seats
    /\ seat_holds' = db.seat_holds
    /\ bookings' = db.bookings
    /\ booked_count' = db.booked_count
    /\ waitlist' = db.waitlist

\* ----------------------------------------------------------------- seats
AvailableSeat ==
    [status |-> "available", booking_id |-> NULL, hold_token |-> NULL,
     hold_expires_at |-> NULL]

\* seats.seat_no of a seat row: the event's seats are numbered by their id
SeatNo(s) == s

\* SELECT ... WHERE event_id = $1 AND seat_no = ANY($2) ORDER BY id FOR UPDATE
GetSeatsForEventForUpdate(seatNos) == {s \in Seats : SeatNo(s) \in seatNos}

\* fault: the update writes the hold fields but leaves status as it was
UpdateSeatsToHeld_StatusKept(ss, expiresAt, token, ids) ==
    [s \in Seats |->
        IF s \in ids
        THEN [ss[s] EXCEPT !.hold_expires_at = expiresAt, !.hold_token = token]
        ELSE ss[s]]

\* UPDATE seats SET status='held', hold_expires_at=$1, hold_token=$2 WHERE id = ANY($3)
UpdateSeatsToHeld(ss, expiresAt, token, ids) ==
    [s \in Seats |->
        IF s \in ids
        THEN [ss[s] EXCEPT !.status = "held",
                           !.hold_expires_at = expiresAt,
                           !.hold_token = token]
        ELSE ss[s]]

\* fault: the row is inserted with the wrong status
InsertSeatHold_Expired(hs, user, ids, expiresAt) ==
    Append(hs, [user_id |-> user, seat_ids |-> ids, expires_at |-> expiresAt,
                status |-> "expired"])

\* INSERT INTO seat_holds (...) VALUES (..., 'active')
InsertSeatHold(hs, user, ids, expiresAt) ==
    Append(hs, [user_id |-> user, seat_ids |-> ids, expires_at |-> expiresAt,
                status |-> "active"])

\* uuid.NewString(): a token no earlier hold carries
NewHoldToken(hs) == Len(hs) + 1

\* ------------------------------------------------------------------ Init
\* the reconcile worker between two runs
IdleReconcile == [pc |-> "idle", mismatches |-> <<>>, orphans |-> <<>>]

Init ==
    /\ seats = [s \in Seats |-> AvailableSeat]
    /\ seat_holds = <<>>
    /\ bookings = <<>>
    /\ booked_count = 0
    /\ capacity = InitialCapacity
    /\ waitlist = <<>>
    /\ now = 0
    /\ inflight = EmptyBag
    /\ expiry = [pc |-> "idle", holds |-> <<>>, promote |-> FALSE, cands |-> <<>>]
    /\ runs = EmptyBag
    /\ txs = [t \in TxIds |-> NoTx]
    /\ reconcile = IdleReconcile

\* ------------------------------------------------------------ CreateHold
\* POST /holds: one transaction over the requested seat rows
CreateHoldReply(db, clock, user, seatNos) ==
    LET found == GetSeatsForEventForUpdate(seatNos)
        token == NewHoldToken(db.seat_holds)
        expiresAt == clock + defaultHoldTTLSeconds
    IN  IF Cardinality(found) # Cardinality(seatNos) THEN Reply(404, NULL, db)
        ELSE IF \E s \in found : db.seats[s].status # "available"
        THEN Reply(409, NULL, db)
        ELSE Reply(201, token,
                   [db EXCEPT
                      !.seats = UpdateSeatsToHeld(db.seats, expiresAt, token, found),
                      !.seat_holds = InsertSeatHold(db.seat_holds, user, found,
                                                    expiresAt)])

CreateHold(user, seatNos) ==
    LET r == CreateHoldReply(DB, now, user, seatNos)
    IN  /\ r.code = 201 => Len(seat_holds) < MaxHolds
        /\ Commit(r.db)
        /\ UNCHANGED <<capacity, now, inflight, expiry, runs, txs, reconcile>>

\* --------------------------------------------------------- CreateBooking
\* fault: the lookup also filters on status = 'active'
GetBookingByEventAndIdempotency_ActiveOnly(bs, key) ==
    {b \in 1..Len(bs) : bs[b].idempotency_key = key /\ bs[b].status = "active"}

\* SELECT ... FROM bookings WHERE event_id = $1 AND idempotency_key = $2
GetBookingByEventAndIdempotency(bs, key) ==
    {b \in 1..Len(bs) : bs[b].idempotency_key = key}

\* SELECT seat_no FROM seats WHERE id = ANY($1)
GetSeatNosByIds(ids) == {SeatNo(s) : s \in ids}

\* SELECT ... WHERE event_id = $1 AND seat_no = ANY($2) ORDER BY id FOR UPDATE
GetSeatsForBookingForUpdate(seatNos) == {s \in Seats : SeatNo(s) \in seatNos}

\* fault: the switch has no default branch, so booked seats pass
SeatRefused_NoDefault(ss, s, holdToken) ==
    CASE ss[s].status = "available" -> holdToken # NULL
      [] ss[s].status = "held" ->
            \/ holdToken = NULL
            \/ ss[s].hold_token = NULL
            \/ ss[s].hold_token # holdToken
      [] OTHER -> FALSE

\* fault: a held seat is accepted with any hold token
SeatRefused_AnyToken(ss, s, holdToken) ==
    CASE ss[s].status = "available" -> holdToken # NULL
      [] ss[s].status = "held" -> holdToken = NULL
      [] OTHER -> TRUE

\* the status switch of CreateBooking: TRUE when seat s makes the request fail
SeatRefused(ss, s, holdToken) ==
    CASE ss[s].status = "available" -> holdToken # NULL
      [] ss[s].status = "held" ->
            \/ holdToken = NULL
            \/ ss[s].hold_token = NULL
            \/ ss[s].hold_token # holdToken
      [] OTHER -> TRUE

\* fault: the index is missing
ux_bookings_idempotency_Dropped(bs, key) == TRUE

\* the unique index ux_bookings_idempotency on (event_id, idempotency_key)
ux_bookings_idempotency(bs, key) ==
    key = NULL \/ \A b \in 1..Len(bs) : bs[b].idempotency_key # key

\* INSERT INTO bookings (...) RETURNING id: the new row's id is Len + 1
InsertBooking(bs, user, ids, status, key) ==
    Append(bs, [user_id |-> user, seats |-> Cardinality(ids), seat_ids |-> ids,
                status |-> status, idempotency_key |-> key])

\* fault: the update matches no row
UpdateSeatsToBooked_NoRows(ss, bookingId, ids) == ss

\* UPDATE seats SET status='booked', booking_id=$1, hold_* = NULL WHERE id = ANY($2)
UpdateSeatsToBooked(ss, bookingId, ids) ==
    [s \in Seats |->
        IF s \in ids
        THEN [ss[s] EXCEPT !.status = "booked",
                           !.booking_id = bookingId,
                           !.hold_expires_at = NULL,
                           !.hold_token = NULL]
        ELSE ss[s]]

\* UPDATE events SET booked_count = booked_count + $1 WHERE id = $2
UpdateEventBookedCount(count, n) == count + n

\* the CHECK (booked_count >= 0) of table events
events_booked_count_check(count) == count >= 0

\* UPDATE seat_holds SET status = 'converted' WHERE hold_token = $1
ConvertSeatHoldToConverted(hs, token) ==
    [h \in 1..Len(hs) |->
        IF h = token THEN [hs[h] EXCEPT !.status = "converted"] ELSE hs[h]]

\* fault: the comparison omits len(reqSet) == len(bookedSet)
CreateBookingPreCheckReply_SubsetReplays(db, key, seatNos) ==
    LET existing == GetBookingByEventAndIdempotency(db.bookings, key)
    IN  IF existing # {}
        THEN LET b == CHOOSE x \in existing : TRUE
                 bookedSeatNos == GetSeatNosByIds(db.bookings[b].seat_ids)
             IN  IF seatNos \subseteq bookedSeatNos THEN Reply(200, b, db)
                 ELSE Reply(409, b, db)
        ELSE Reply(0, NULL, db)

\* the idempotency pre-check of CreateBooking, before any transaction:
\* 200 replays the existing booking, 409 is a collision, 0 lets the request go on
CreateBookingPreCheckReply(db, key, seatNos) ==
    LET existing == GetBookingByEventAndIdempotency(db.bookings, key)
    IN  IF existing # {}
        THEN LET b == CHOOSE x \in existing : TRUE
                 bookedSeatNos == GetSeatNosByIds(db.bookings[b].seat_ids)
             IN  IF seatNos = bookedSeatNos THEN Reply(200, b, db)
                 ELSE Reply(409, b, db)
        ELSE Reply(0, NULL, db)

\* one attempt of the CreateBooking transaction, begin to commit
CreateBookingTxReply(db, user, key, seatNos, holdToken) ==
    LET found == GetSeatsForBookingForUpdate(seatNos)
        n == Cardinality(found)
        newId == Len(db.bookings) + 1
    IN  IF n # Cardinality(seatNos) THEN Reply(404, NULL, db)
        ELSE IF \E s \in found : SeatRefused(db.seats, s, holdToken)
        THEN Reply(409, NULL, db)
        ELSE IF ~ux_bookings_idempotency(db.bookings, key) THEN Reply(500, NULL, db)
        ELSE IF ~events_booked_count_check(UpdateEventBookedCount(db.booked_count, n))
        THEN Reply(500, NULL, db)
        ELSE Reply(201, newId,
                   [db EXCEPT
                      !.bookings = InsertBooking(db.bookings, user, found,
                                                 "active", key),
                      !.seats = UpdateSeatsToBooked(db.seats, newId, found),
                      !.booked_count = UpdateEventBookedCount(db.booked_count, n),
                      !.seat_holds = IF holdToken # NULL
                                     THEN ConvertSeatHoldToConverted(db.seat_holds,
                                                                     holdToken)
                                     ELSE db.seat_holds])

\* the set of hold tokens a client can present: none, or one handed out by CreateHold
HoldTokens == {NULL} \cup (1..Len(seat_holds))

\* the request reaches the pre-check; a request that passes waits for its
\* transaction.  The transaction is the first reader of the caller, the seat
\* numbers and the hold token, so they are drawn there.
CreateBookingPreCheck(key, seatNos) ==
    LET r == CreateBookingPreCheckReply(DB, key, seatNos)
    IN  /\ IF r.code # 0
           THEN UNCHANGED inflight
           ELSE /\ BagCardinality(inflight) < MaxInflight
                /\ inflight' = inflight (+) SetToBag({key})
        /\ UNCHANGED <<seats, seat_holds, bookings, booked_count, capacity,
                       waitlist, now, expiry, runs, txs, reconcile>>

CreateBookingTx(key, user, seatNos, holdToken) ==
    LET r == CreateBookingTxReply(DB, user, key, seatNos, holdToken)
    IN  /\ BagIn(key, inflight)
        /\ holdToken \in HoldTokens
        /\ r.code = 201 => Len(bookings) < MaxBookings
        /\ inflight' = inflight (-) SetToBag({key})
        /\ Commit(r.db)
        /\ UNCHANGED <<capacity, now, expiry, runs, txs, reconcile>>

\* --------------------------------------------------------- CancelBooking
\* fault: the update matches no row
UpdateBookingToCancelled_NoRows(bs, id) == bs

\* UPDATE bookings SET status = 'cancelled' WHERE id = $1 AND status = 'active'
UpdateBookingToCancelled(bs, id) ==
    [b \in 1..Len(bs) |->
        IF b = id /\ bs[b].status = "active"
        THEN [bs[b] EXCEPT !.status = "cancelled"] ELSE bs[b]]

\* fault: the update matches no row
UpdateSeatsToAvailableByIds_NoRows(ss, ids) == ss

\* fault: the update leaves booking_id as it was
UpdateSeatsToAvailableByIds_KeepsBookingId(ss, ids) ==
    [s \in Seats |->
        IF s \in ids THEN [AvailableSeat EXCEPT !.booking_id = ss[s].booking_id]
        ELSE ss[s]]

\* UPDATE seats SET status='available', booking_id, hold_* = NULL WHERE id = ANY($1)
UpdateSeatsToAvailableByIds(ss, ids) ==
    [s \in Seats |-> IF s \in ids THEN AvailableSeat ELSE ss[s]]

\* fault: the delta is passed with the wrong sign
UpdateEventBookedCountByDelta_WrongSign(count, delta) == count - delta

\* UPDATE events SET booked_count = booked_count + $1 WHERE id = $2
UpdateEventBookedCountByDelta(count, delta) == count + delta

\* fault: every caller counts as the owner
isOwner_AnyCaller(bookingRow, currentUserID) == TRUE

\* isOwner of CancelBooking: the booking has a user and it is the caller
isOwner(bookingRow, currentUserID) ==
    bookingRow.user_id # NULL /\ bookingRow.user_id = currentUserID

\* DELETE /bookings/:id: one transaction over the booking row
CancelBookingReply(db, bookingID, currentUserID, currentUserRole) ==
    IF bookingID \notin 1..Len(db.bookings) THEN Reply(404, NULL, db)
    ELSE
    LET bookingRow == db.bookings[bookingID]
        seatIDs == bookingRow.seat_ids
        nSeats == Cardinality(seatIDs)
        count == UpdateEventBookedCountByDelta(db.booked_count, 0 - nSeats)
    IN  IF ~(isOwner(bookingRow, currentUserID) \/ currentUserRole = "admin")
        THEN Reply(403, NULL, db)
        ELSE IF bookingRow.status # "active" THEN Reply(409, NULL, db)
        ELSE IF nSeats = 0
        THEN Reply(200, bookingID,
                   [db EXCEPT !.bookings = UpdateBookingToCancelled(db.bookings,
                                                                    bookingID)])
        ELSE IF ~events_booked_count_check(count) THEN Reply(500, NULL, db)
        ELSE Reply(200, bookingID,
                   [db EXCEPT
                      !.bookings = UpdateBookingToCancelled(db.bookings, bookingID),
                      !.seats = UpdateSeatsToAvailableByIds(db.seats, seatIDs),
                      !.booked_count = count])

\* a promotion run that has not read the waitlist yet
SpawnedRun == [pc |-> "load", cands |-> <<>>]

\* fault: the promotion is started whatever the outcome of the transaction
CancelBooking_SpawnsAlways(bookingID, currentUserID, currentUserRole) ==
    LET r == CancelBookingReply(DB, bookingID, currentUserID, currentUserRole)
    IN  /\ Commit(r.db)
        /\ BagCardinality(runs) < MaxRuns
        /\ runs' = runs (+) SetToBag({SpawnedRun})
        /\ UNCHANGED <<capacity, now, inflight, expiry, txs, reconcile>>

\* after commit: go EnqueuePromoteEvent(h.DB, bookingRow.EventID.Bytes)
CancelBooking(bookingID, currentUserID, currentUserRole) ==
    LET r == CancelBookingReply(DB, bookingID, currentUserID, currentUserRole)
    IN  /\ Commit(r.db)
        /\ IF r.code = 200
           THEN /\ BagCardinality(runs) < MaxRuns
                /\ runs' = runs (+) SetToBag({SpawnedRun})
           ELSE UNCHANGED runs
        /\ UNCHANGED <<capacity, now, inflight, expiry, txs, reconcile>>

\* -------------------------------------------------------------- waitlist
RECURSIVE MaxPosition(_)
\* SELECT COALESCE(MAX(position), 0) FROM waitlist WHERE event_id = $1
MaxPosition(wl) ==
    IF wl = <<>> THEN 0
    ELSE LET m == MaxPosition(Tail(wl))
         IN  IF Head(wl).position > m THEN Head(wl).position ELSE m

\* the constraint UNIQUE(event_id, user_id) of table waitlist
waitlist_event_user_unique(wl, user) ==
    \A w \in 1..Len(wl) : wl[w].user_id # user

\* INSERT INTO waitlist (...) VALUES ($1, $2, $3, MAX(position) + 1, 'waiting')
InsertWaitlist(wl, user, requestedSeats) ==
    Append(wl, [user_id |-> user, requested_seats |-> requestedSeats,
                position |-> MaxPosition(wl) + 1, status |-> "waiting"])

\* POST /events/:id/waitlist
JoinWaitlistReply(db, user, requestedSeats) ==
    IF ~waitlist_event_user_unique(db.waitlist, user) THEN Reply(500, NULL, db)
    ELSE Reply(202, Len(db.waitlist) + 1,
               [db EXCEPT !.waitlist = InsertWaitlist(db.waitlist, user,
                                                      requestedSeats)])

JoinWaitlist(user, requestedSeats) ==
    /\ Len(waitlist) < MaxWaiters
    /\ Commit(JoinWaitlistReply(DB, user, requestedSeats).db)
    /\ UNCHANGED <<capacity, now, inflight, expiry, runs, txs, reconcile>>

\* InsertWaitlist as the store executes it at read committed: the statement
\* first evaluates its sub-select on the rows committed when it starts
InsertWaitlistSnapshot(t, user, requestedSeats) ==
    /\ txs[t].kind = "none"
    /\ txs' = [txs EXCEPT ![t] =
                  [NoTx EXCEPT !.kind = "InsertWaitlist",
                               !.user = user,
                               !.requested = requestedSeats,
                               !.position = MaxPosition(waitlist) + 1]]
    /\ UNCHANGED <<seats, seat_holds, bookings, booked_count, capacity,
                   waitlist, now, inflight, expiry, runs, reconcile>>

\* ... and then inserts the row with the position it computed; the unique
\* index on (event_id, user_id) is checked against the rows of that moment,
\* and the handler answers 500 to any error
InsertWaitlistWrite(t) ==
    LET tx == txs[t]
    IN  /\ tx.kind = "InsertWaitlist"
        /\ Len(waitlist) < MaxWaiters
        /\ waitlist' = IF waitlist_event_user_unique(waitlist, tx.user)
                       THEN Append(waitlist,
                                   [user_id |-> tx.user,
                                    requested_seats |-> tx.requested,
                                    position |-> tx.position,
                                    status |-> "waiting"])
                       ELSE waitlist
        /\ txs' = [txs EXCEPT ![t] = NoTx]
        /\ UNCHANGED <<seats, seat_holds, bookings, booked_count, capacity,
                       now, inflight, expiry, runs, reconcile>>

\* POST /events/:id/waitlist by several callers at once
NextJoin ==
    \/ \E t \in TxIds, u \in Callers, n \in 1..MaxRequested :
            InsertWaitlistSnapshot(t, u, n)
    \/ \E t \in TxIds : InsertWaitlistWrite(t)

SpecJoin == Init /\ [][NextJoin]_vars

\* w comes before v in ORDER BY position, created_at (rows are created in id order)
WaitsBefore(wl, w, v) ==
    \/ wl[w].position < wl[v].position
    \/ wl[w].position = wl[v].position /\ w < v

RECURSIVE SortWaiters(_, _)
SortWaiters(wl, ids) ==
    IF ids = {} THEN <<>>
    ELSE LET first == CHOOSE w \in ids : \A v \in ids \ {w} : WaitsBefore(wl, w, v)
         IN  <<first>> \o SortWaiters(wl, ids \ {first})

\* SELECT ... FROM waitlist WHERE event_id = $1 AND status = 'waiting'
\* ORDER BY position, created_at
GetWaitingListByEvent(wl) ==
    SortWaiters(wl, {w \in 1..Len(wl) : wl[w].status = "waiting"})

RECURSIVE FirstN(_, _)
\* the n smallest ids of a set of seat ids (ORDER BY id LIMIT n)
FirstN(ids, n) ==
    IF n = 0 \/ ids = {} THEN {}
    ELSE LET m == CHOOSE x \in ids : \A y \in ids : x <= y
         IN  {m} \cup FirstN(ids \ {m}, n - 1)

\* fault: the filter also lets held seats through
GetAvailableSeatsForEventForUpdate_IncludesHeld(ss, n) ==
    FirstN({s \in Seats : ss[s].status \in {"available", "held"}}, n)

\* SELECT id, seat_no FROM seats WHERE event_id = $1 AND status = 'available'
\* ORDER BY id LIMIT $2 FOR UPDATE
GetAvailableSeatsForEventForUpdate(ss, n) ==
    FirstN({s \in Seats : ss[s].status = "available"}, n)

\* UPDATE waitlist SET status = $2 WHERE id = $1
UpdateWaitlistStatus(wl, id, status) ==
    [w \in 1..Len(wl) |-> IF w = id THEN [wl[w] EXCEPT !.status = status] ELSE wl[w]]

\* idempotencyKey := uuid.NewString(): a key no request and no other row carries
NewPromotionKey(bs) == 0 - (Len(bs) + 1)

\* the body of the candidate loop of ProcessWaitlistForEvent: one transaction;
\* code 0 stands for the rolled-back branches, which all continue the loop
PromoteCandidateReply(db, candidate) ==
    LET n == db.waitlist[candidate].requested_seats
        found == GetAvailableSeatsForEventForUpdate(db.seats, n)
        newId == Len(db.bookings) + 1
        key == NewPromotionKey(db.bookings)
    IN  IF Cardinality(found) < n THEN Reply(0, NULL, db)
        ELSE IF ~ux_bookings_idempotency(db.bookings, key) THEN Reply(0, NULL, db)
        ELSE Reply(201, newId,
                   [db EXCEPT
                      !.bookings = InsertBooking(db.bookings,
                                                 db.waitlist[candidate].user_id,
                                                 found, "active", key),
                      !.seats = UpdateSeatsToBooked(db.seats, newId, found),
                      !.booked_count = UpdateEventBookedCount(db.booked_count,
                                                              Cardinality(found)),
                      !.waitlist = UpdateWaitlistStatus(db.waitlist, candidate,
                                                        "promoted")])

\* ProcessWaitlistForEvent, started by a cancellation: read the waiting entries
PromoteLoad ==
    LET waiters == GetWaitingListByEvent(waitlist)
        run == SpawnedRun
    IN  /\ BagIn(run, runs)
        /\ runs' = IF waiters = <<>> THEN runs (-) SetToBag({run})
                   ELSE (runs (-) SetToBag({run}))
                        (+) SetToBag({[pc |-> "loop", cands |-> waiters]})
        /\ UNCHANGED <<seats, seat_holds, bookings, booked_count, capacity,
                       waitlist, now, inflight, expiry, txs, reconcile>>

\* ProcessWaitlistForEvent: one turn of the candidate loop
PromoteStep ==
    \E run \in BagToSet(runs) :
        LET r == PromoteCandidateReply(DB, Head(run.cands))
            rest == Tail(run.cands)
        IN  /\ run.pc = "loop"
            /\ r.code = 201 => Len(bookings) < MaxBookings
            /\ Commit(r.db)
            /\ runs' = IF rest = <<>> THEN runs (-) SetToBag({run})
                       ELSE (runs (-) SetToBag({run}))
                            (+) SetToBag({[run EXCEPT !.cands = rest]})
            /\ UNCHANGED <<capacity, now, inflight, expiry, txs, reconcile>>

\* ---------------------------------------------------------- hold expiry
RECURSIVE SortIds(_)
\* a set of row ids in creation order (ORDER BY created_at)
SortIds(ids) ==
    IF ids = {} THEN <<>>
    ELSE LET m == CHOOSE x \in ids : \A y \in ids : x <= y
         IN  <<m>> \o SortIds(ids \ {m})

\* fault: the read takes every active hold, due or not
GetExpiredSeatHolds_AllActive(hs, clock) ==
    SortIds({h \in 1..Len(hs) : hs[h].status = "active"})

\* SELECT ... FROM seat_holds WHERE expires_at <= now() AND status = 'active'
\* ORDER BY created_at
GetExpiredSeatHolds(hs, clock) ==
    SortIds({h \in 1..Len(hs) : hs[h].expires_at <= clock /\ hs[h].status = "active"})

\* fault: the update leaves out the hold_token condition
UpdateSeatsToAvailableByHold_AnyToken(ss, token, ids) ==
    [s \in Seats |->
        IF s \in ids
        THEN [ss[s] EXCEPT !.status = "available",
                           !.hold_expires_at = NULL,
                           !.hold_token = NULL]
        ELSE ss[s]]

\* UPDATE seats SET status='available', hold_* = NULL
\* WHERE hold_token = $1 AND id = ANY($2)
UpdateSeatsToAvailableByHold(ss, token, ids) ==
    [s \in Seats |->
        IF s \in ids /\ ss[s].hold_token = token
        THEN [ss[s] EXCEPT !.status = "available",
                           !.hold_expires_at = NULL,
                           !.hold_token = NULL]
        ELSE ss[s]]

\* fault: the hold row is left as it was
MarkSeatHoldExpired_NoRows(hs, id) == hs

\* UPDATE seat_holds SET status = 'expired' WHERE id = $1
MarkSeatHoldExpired(hs, id) ==
    [h \in 1..Len(hs) |->
        IF h = id THEN [hs[h] EXCEPT !.status = "expired"] ELSE hs[h]]

\* processSingleHold: one transaction; token and seatIDs are the values the
\* tick read, which no statement of the program ever changes
processSingleHoldReply(db, holdID) ==
    LET token == holdID
        seatIDs == db.seat_holds[holdID].seat_ids
    IN  Reply(0, holdID,
              [db EXCEPT
                 !.seats = UpdateSeatsToAvailableByHold(db.seats, token, seatIDs),
                 !.seat_holds = MarkSeatHoldExpired(db.seat_holds, holdID)])

\* ExpireHolds, start of a tick: the non-transactional read of the due holds
ExpireHoldsRead ==
    LET holds == GetExpiredSeatHolds(seat_holds, now)
    IN  /\ expiry.pc = "idle"
        /\ holds # <<>>
        /\ expiry' = [pc |-> "holds", holds |-> holds, promote |-> FALSE,
                      cands |-> <<>>]
        /\ UNCHANGED <<seats, seat_holds, bookings, booked_count, capacity,
                       waitlist, now, inflight, runs, txs, reconcile>>

\* ExpireHolds: one turn of the loop over the holds read
processSingleHold ==
    /\ expiry.pc = "holds"
    /\ Commit(processSingleHoldReply(DB, Head(expiry.holds)).db)
    /\ expiry' = IF Tail(expiry.holds) = <<>>
                 THEN [pc |-> "load", holds |-> <<>>, promote |-> TRUE,
                       cands |-> <<>>]
                 ELSE [expiry EXCEPT !.holds = Tail(expiry.holds),
                                     !.promote = TRUE]
    /\ UNCHANGED <<capacity, now, inflight, runs, txs, reconcile>>

\* ExpireHolds, after the loop: processWaitlistForEvent reads the waiting entries
processWaitlistForEventLoad ==
    LET waiters == GetWaitingListByEvent(waitlist)
    IN  /\ expiry.pc = "load"
        /\ expiry' = IF expiry.promote /\ waiters # <<>>
                     THEN [expiry EXCEPT !.pc = "loop", !.cands = waiters]
                     ELSE [pc |-> "idle", holds |-> <<>>, promote |-> FALSE,
                           cands |-> <<>>]
        /\ UNCHANGED <<seats, seat_holds, bookings, booked_count, capacity,
                       waitlist, now, inflight, runs, txs, reconcile>>

\* processWaitlistForEvent: one turn of the candidate loop
processWaitlistForEventStep ==
    LET r == PromoteCandidateReply(DB, Head(expiry.cands))
        rest == Tail(expiry.cands)
    IN  /\ expiry.pc = "loop"
        /\ r.code = 201 => Len(bookings) < MaxBookings
        /\ Commit(r.db)
        /\ expiry' = IF rest = <<>>
                     THEN [pc |-> "idle", holds |-> <<>>, promote |-> FALSE,
                           cands |-> <<>>]
                     ELSE [expiry EXCEPT !.cands = rest]
        /\ UNCHANGED <<capacity, now, inflight, runs, txs, reconcile>>

\* ----------------------------------------------------------------- clock
Tick ==
    /\ now + ClockStep <= MaxNow
    /\ now' = now + ClockStep
    /\ UNCHANGED <<seats, seat_holds, bookings, booked_count, capacity,
                   waitlist, inflight, expiry, runs, txs, reconcile>>

Next ==
    \/ \E u \in Users, sn \in SeatNoSets : CreateHold(u, sn)
    \/ \E k \in Keys, sn \in SeatNoSets : CreateBookingPreCheck(k, sn)
    \/ \E k \in Keys, u \in Users, sn \in SeatNoSets, t \in NULL..MaxHolds :
            CreateBookingTx(k, u, sn, t)
    \/ \E b \in 1..MaxBookings, u \in Users, role \in Roles :
            CancelBooking(b, u, role)
    \/ \E u \in Users, n \in 1..MaxRequested : JoinWaitlist(u, n)
    \/ PromoteLoad
    \/ PromoteStep
    \/ ExpireHoldsRead
    \/ processSingleHold
    \/ processWaitlistForEventLoad
    \/ processWaitlistForEventStep
    \/ Tick

Spec == Init /\ [][Next]_vars

\* time advances and the expiry loop of main keeps ticking: the clock and
\* every step of the worker's tick are taken when they stay possible; nothing
\* is assumed of the clients
SpecLive ==
    /\ Spec
    /\ WF_vars(Tick)
    /\ WF_vars(ExpireHoldsRead)
    /\ WF_vars(processSingleHold)
    /\ WF_vars(processWaitlistForEventLoad)
    /\ WF_vars(processWaitlistForEventStep)

\* ------------------------------------- hold expiry, single-connection variant
\* internal/worker ExpireHolds: one turn of the loop over the holds read; after
\* the commit of a hold the promoter is started in its own goroutine
\* (go func(ev) { promoter.ProcessWaitlistForEvent(ev) }(h.EventID)), and the
\* tick ends with the last hold
processSingleHoldThenPromote ==
    /\ expiry.pc = "holds"
    /\ Commit(processSingleHoldReply(DB, Head(expiry.holds)).db)
    /\ BagCardinality(runs) < MaxGoroutines
    /\ runs' = runs (+) SetToBag({SpawnedRun})
    /\ expiry' = IF Tail(expiry.holds) = <<>>
                 THEN [pc |-> "idle", holds |-> <<>>, promote |-> FALSE,
                       cands |-> <<>>]
                 ELSE [expiry EXCEPT !.holds = Tail(expiry.holds)]
    /\ UNCHANGED <<capacity, now, inflight, txs, reconcile>>

\* the program as started with the single-connection workers
NextSingleConn ==
    \/ \E u \in Users, sn \in SeatNoSets : CreateHold(u, sn)
    \/ \E u \in Callers, n \in 1..MaxRequested : JoinWaitlist(u, n)
    \/ PromoteLoad
    \/ PromoteStep
    \/ ExpireHoldsRead
    \/ processSingleHoldThenPromote
    \/ Tick

SpecSingleConn == Init /\ [][NextSingleConn]_vars

\* the request handlers serving two callers, with the clock at rest and the
\* waitlist left empty
NextCallers ==
    \/ \E u \in Callers, sn \in SeatNoSets : CreateHold(u, sn)
    \/ \E k \in Keys, sn \in SeatNoSets : CreateBookingPreCheck(k, sn)
    \/ \E k \in Keys, u \in Callers, sn \in SeatNoSets, t \in NULL..MaxHolds :
            CreateBookingTx(k, u, sn, t)
    \/ \E b \in 1..MaxBookings, u \in Callers, role \in Roles :
            CancelBooking(b, u, role)
    \/ PromoteLoad

SpecCallers == Init /\ [][NextCallers]_vars

\* the waitlist with two callers who can both be on it: one of them also
\* holds, books without a hold token and cancels; the clock is at rest
NextWaitlist ==
    \/ \E u \in Users, sn \in SeatNoSets : CreateHold(u, sn)
    \/ \E k \in Keys, sn \in SeatNoSets : CreateBookingPreCheck(k, sn)
    \/ \E k \in Keys, u \in Users, sn \in SeatNoSets :
            CreateBookingTx(k, u, sn, NULL)
    \/ \E b \in 1..MaxBookings, u \in Users, role \in Roles :
            CancelBooking(b, u, role)
    \/ \E u \in Callers, n \in 1..MaxRequested : JoinWaitlist(u, n)
    \/ PromoteLoad
    \/ PromoteStep

SpecWaitlist == Init /\ [][NextWaitlist]_vars

\* --------------------------------------------------------- drifted rows
\* The store as the reconciler expects it may be found: one active booking
\* with its seats booked, and events.booked_count at any value, equal to the
\* booking's seats or not.
InitDrift ==
    \E ids \in SeatNoSets, count \in 0..NumSeats :
        /\ seats = [s \in Seats |->
                       IF s \in ids
                       THEN [AvailableSeat EXCEPT !.status = "booked",
                                                  !.booking_id = 1]
                       ELSE AvailableSeat]
        /\ seat_holds = <<>>
        /\ bookings = InsertBooking(<<>>, 1, ids, "active", 1)
        /\ booked_count = count
        /\ capacity = InitialCapacity
        /\ waitlist = <<>>
        /\ now = 0
        /\ inflight = EmptyBag
        /\ expiry = [pc |-> "idle", holds |-> <<>>, promote |-> FALSE,
                     cands |-> <<>>]
        /\ runs = EmptyBag
        /\ txs = [t \in TxIds |-> NoTx]
        /\ reconcile = IdleReconcile

SpecDrift == InitDrift /\ [][NextCallers]_vars

\* -------------------------------------------------------- row-lock level
\* The transactions of CreateHold and processSingleHold with their first
\* statement, the locking read of the seat rows, taken one row at a time.  A
\* transaction that has all its rows runs to its commit as one step.

\* every order in which a statement without ORDER BY can visit the rows ids
ScanOrders(ids) ==
    {q \in [1..Cardinality(ids) -> ids] :
        \A i, j \in 1..Cardinality(ids) : i # j => q[i] # q[j]}

\* connection t has a transaction open
Open(t) == txs[t].kind # "none" /\ txs[t].code = 0

\* the seat rows locked by the transaction on connection t
LockedBy(t) == IF Open(t) THEN txs[t].held ELSE {}

\* the connections whose transaction holds the row that t's statement waits for
WaitsOn(t) ==
    IF Open(t) /\ txs[t].todo # <<>>
    THEN {u \in TxIds \ {t} : Head(txs[t].todo) \in LockedBy(u)}
    ELSE {}

RECURSIVE WaitClosure(_, _)
\* the connections reached from the set S along at most n more waits
WaitClosure(S, n) ==
    IF n = 0 THEN S
    ELSE WaitClosure(S \cup UNION {WaitsOn(u) : u \in S}, n - 1)

\* the store's deadlock detector: t waits in a cycle of waiting transactions
InDeadlock(t) == t \in WaitClosure(WaitsOn(t), MaxTxs)

\* CreateHold: h.DB.Begin, then GetSeatsForEventForUpdate ... ORDER BY id FOR UPDATE
BeginCreateHold(t, user, seatNos) ==
    /\ ~Open(t)
    /\ txs' = [txs EXCEPT ![t] =
                 [NoTx EXCEPT !.kind = "CreateHold", !.user = user,
                              !.seatNos = seatNos,
                              !.todo = SortIds(GetSeatsForEventForUpdate(seatNos))]]
    /\ UNCHANGED <<seats, seat_holds, bookings, booked_count, capacity,
                   waitlist, now, inflight, expiry, runs, reconcile>>

\* processSingleHold: BeginTx, then
\* SELECT id FROM seats WHERE id = ANY($1) FOR UPDATE, in the order of the scan
BeginProcessSingleHold(t, order) ==
    /\ expiry.pc = "holds"
    /\ ~Open(t)
    /\ \A u \in TxIds : ~(Open(u) /\ txs[u].kind = "processSingleHold")
    /\ order \in ScanOrders(seat_holds[Head(expiry.holds)].seat_ids)
    /\ txs' = [txs EXCEPT ![t] =
                 [NoTx EXCEPT !.kind = "processSingleHold",
                              !.hold = Head(expiry.holds), !.todo = order]]
    /\ UNCHANGED <<seats, seat_holds, bookings, booked_count, capacity,
                   waitlist, now, inflight, expiry, runs, reconcile>>

\* the locking read takes the next row, once no other transaction holds it
LockSeatRow(t) ==
    /\ Open(t)
    /\ txs[t].todo # <<>>
    /\ WaitsOn(t) = {}
    /\ txs' = [txs EXCEPT ![t].held = @ \cup {Head(txs[t].todo)},
                          ![t].todo = Tail(@)]
    /\ UNCHANGED <<seats, seat_holds, bookings, booked_count, capacity,
                   waitlist, now, inflight, expiry, runs, reconcile>>

\* CreateHold from the rows read under lock to the reply
CommitCreateHold(t) ==
    LET r == CreateHoldReply(DB, now, txs[t].user, txs[t].seatNos)
    IN  /\ Open(t)
        /\ txs[t].kind = "CreateHold"
        /\ txs[t].todo = <<>>
        /\ r.code = 201 => Len(seat_holds) < MaxHolds
        /\ Commit(r.db)
        /\ txs' = [txs EXCEPT ![t] = [NoTx EXCEPT !.kind = "CreateHold",
                                                  !.code = r.code]]
        /\ UNCHANGED <<capacity, now, inflight, expiry, runs, reconcile>>

\* fault: a failed hold ends the tick, the holds after it are dropped
NextHold_StopsOnFailure(done) ==
    IF ~done
    THEN [pc |-> "idle", holds |-> <<>>, promote |-> FALSE, cands |-> <<>>]
    ELSE IF Tail(expiry.holds) = <<>>
    THEN [pc |-> "load", holds |-> <<>>, promote |-> TRUE, cands |-> <<>>]
    ELSE [expiry EXCEPT !.holds = Tail(expiry.holds), !.promote = TRUE]

\* ExpireHolds after processSingleHold returned: the loop moves to the next hold
NextHold(done) ==
    IF Tail(expiry.holds) = <<>>
    THEN [pc |-> "load", holds |-> <<>>, promote |-> expiry.promote \/ done,
          cands |-> <<>>]
    ELSE [expiry EXCEPT !.holds = Tail(expiry.holds),
                        !.promote = expiry.promote \/ done]

\* processSingleHold from the rows locked to its commit
CommitProcessSingleHold(t) ==
    /\ Open(t)
    /\ txs[t].kind = "processSingleHold"
    /\ txs[t].todo = <<>>
    /\ Commit(processSingleHoldReply(DB, txs[t].hold).db)
    /\ expiry' = NextHold(TRUE)
    /\ txs' = [txs EXCEPT ![t] = NoTx]
    /\ UNCHANGED <<capacity, now, inflight, runs, reconcile>>

\* the store aborts t with 40P01: CreateHold answers 500 to the failed read,
\* processSingleHold returns the error, which ExpireHolds logs before it continues
DeadlockDetected(t) ==
    /\ InDeadlock(t)
    /\ IF txs[t].kind = "CreateHold"
       THEN /\ txs' = [txs EXCEPT ![t] = [NoTx EXCEPT !.kind = "CreateHold",
                                                      !.code = 500]]
            /\ UNCHANGED expiry
       ELSE /\ txs' = [txs EXCEPT ![t] = NoTx]
            /\ expiry' = NextHold(FALSE)
    /\ UNCHANGED <<seats, seat_holds, bookings, booked_count, capacity,
                   waitlist, now, inflight, runs, reconcile>>

\* a statement of processSingleHold, or its commit, returns an error (the
\* connection is lost, the store shuts down): the deferred rollback runs and
\* ExpireHolds logs the error before it continues with the next hold
FailProcessSingleHold(t) ==
    /\ Open(t)
    /\ txs[t].kind = "processSingleHold"
    /\ txs' = [txs EXCEPT ![t] = NoTx]
    /\ expiry' = NextHold(FALSE)
    /\ UNCHANGED <<seats, seat_holds, bookings, booked_count, capacity,
                   waitlist, now, inflight, runs, reconcile>>

NextLocks ==
    \/ \E t \in TxIds, u \in Users, sn \in SeatNoSets : BeginCreateHold(t, u, sn)
    \/ \E t \in TxIds, order \in UNION {ScanOrders(ids) : ids \in SeatNoSets} :
            BeginProcessSingleHold(t, order)
    \/ \E t \in TxIds : LockSeatRow(t)
    \/ \E t \in TxIds : CommitCreateHold(t)
    \/ \E t \in TxIds : CommitProcessSingleHold(t)
    \/ \E t \in TxIds : DeadlockDetected(t)
    \/ \E t \in TxIds : FailProcessSingleHold(t)
    \/ ExpireHoldsRead
    \/ processWaitlistForEventLoad
    \/ processWaitlistForEventStep
    \/ \E u \in Users, n \in 1..MaxRequested : JoinWaitlist(u, n)
    \/ Tick

SpecLocks == Init /\ [][NextLocks]_vars

\* ------------------------------------------------ CreateBooking, retried
\* The retry loop of CreateBooking with the errors the store can return to a
\* statement: the two transient SQLSTATEs the loop retries on, and one that
\* it does not (08006, connection failure).

\* the statements of one attempt, in program order
Statements ==
    <<"GetSeatsForBookingForUpdate", "InsertBooking", "UpdateSeatsToBooked",
      "UpdateEventBookedCount", "ConvertSeatHoldToConverted", "Commit">>

SqlStates == {"40001", "40P01", "08006"}

\* an attempt runs undisturbed, or the store fails one statement of it
NoFailure == [at |-> 0, sqlstate |-> "00000"]

Failures ==
    {NoFailure} \cup [at : 1..Len(Statements), sqlstate : SqlStates]

\* pgErr.Code == "40001" || pgErr.Code == "40P01"
Retryable(sqlstate) == sqlstate = "40001" \/ sqlstate = "40P01"

\* the attempt gets as far as executing statement number at: the locking read
\* always runs, the writes run once the seats passed the checks, the writes
\* after InsertBooking run once the insert went through, and the hold is
\* converted only when a hold_token was sent
Executes(db, tx, at) ==
    LET r == CreateBookingTxReply(db, tx.user, tx.key, tx.seatNos, tx.hold)
    IN  \/ at = 1
        \/ at = 2 /\ r.code \notin {404, 409}
        \/ at \in {3, 4, 6} /\ r.code = 201
        \/ at = 5 /\ r.code = 201 /\ tx.hold # NULL

\* fault: every error of the store sends the loop into another pass
CreateBookingAttemptReply_RetriesAll(db, tx, failure) ==
    IF failure = NoFailure
    THEN CreateBookingTxReply(db, tx.user, tx.key, tx.seatNos, tx.hold)
    ELSE Reply(0, NULL, db)

\* one pass through the body of the retry loop: the reply sent, with code 0
\* when the attempt was rolled back for another pass
CreateBookingAttemptReply(db, tx, failure) ==
    IF failure = NoFailure
    THEN CreateBookingTxReply(db, tx.user, tx.key, tx.seatNos, tx.hold)
    ELSE IF Retryable(failure.sqlstate) THEN Reply(0, NULL, db)
    ELSE Reply(500, NULL, db)

\* the connection the bookings handler owns: h.DB is one *pgx.Conn, which
\* carries one transaction at a time
BookingConn == 1

\* POST /bookings up to the retry loop: the idempotency pre-check answers, or
\* the request enters the loop with attempt = 0 and backoff = initialBackoff
BeginCreateBooking(t, key, user, seatNos, holdToken) ==
    LET r == CreateBookingPreCheckReply(DB, key, seatNos)
    IN  /\ ~Open(t)
        /\ holdToken \in HoldTokens
        /\ txs' = [txs EXCEPT ![t] =
                     IF r.code # 0
                     THEN [NoTx EXCEPT !.kind = "CreateBooking", !.code = r.code]
                     ELSE [NoTx EXCEPT !.kind = "CreateBooking", !.user = user,
                                       !.seatNos = seatNos, !.hold = holdToken,
                                       !.key = key,
                                       !.backoff = initialBackoff]]
        /\ UNCHANGED <<seats, seat_holds, bookings, booked_count, capacity,
                       waitlist, now, inflight, expiry, runs, reconcile>>

\* the SQLSTATEs the store has returned to the request, oldest first
ErrsAfter(tx, failure) ==
    IF failure = NoFailure THEN tx.errs ELSE Append(tx.errs, failure.sqlstate)

\* one pass through the body of the retry loop; after a retryable failure
\* the handler sleeps for backoff, doubles it, and the loop condition
\* attempt < createBookingMaxRetries decides between another pass and 503
AttemptCreateBooking(t, failure) ==
    LET tx == txs[t]
        r == CreateBookingAttemptReply(DB, tx, failure)
    IN  /\ Open(t)
        /\ tx.kind = "CreateBooking"
        /\ failure # NoFailure => Executes(DB, tx, failure.at)
        /\ r.code = 201 => Len(bookings) < MaxBookings
        /\ Commit(r.db)
        /\ txs' = [txs EXCEPT ![t] =
                     IF r.code # 0
                     THEN [NoTx EXCEPT !.kind = "CreateBooking", !.code = r.code,
                                       !.attempt = tx.attempt,
                                       !.backoff = tx.backoff,
                                       !.errs = ErrsAfter(tx, failure)]
                     ELSE IF tx.attempt + 1 < createBookingMaxRetries
                     THEN [tx EXCEPT !.attempt = @ + 1, !.backoff = @ * 2,
                                     !.errs = ErrsAfter(tx, failure)]
                     ELSE [NoTx EXCEPT !.kind = "CreateBooking", !.code = 503,
                                       !.attempt = tx.attempt + 1,
                                       !.backoff = tx.backoff * 2,
                                       !.errs = ErrsAfter(tx, failure)]]
        /\ UNCHANGED <<capacity, now, inflight, expiry, runs, reconcile>>

NextRetry ==
    \/ \E u \in Users, sn \in SeatNoSets : CreateHold(u, sn)
    \/ \E k \in Keys, u \in Users, sn \in RequestSeatNos, h \in NULL..MaxHolds :
            BeginCreateBooking(BookingConn, k, u, sn, h)
    \/ \E failure \in Failures : AttemptCreateBooking(BookingConn, failure)
    \/ \E b \in 1..MaxBookings, u \in Users, role \in Roles :
            CancelBooking(b, u, role)
    \/ PromoteLoad

SpecRetry == Init /\ [][NextRetry]_vars

\* the handler's goroutine keeps running: a request inside the loop makes
\* its next pass
SpecRetryLive ==
    SpecRetry
    /\ WF_vars(\E failure \in Failures : AttemptCreateBooking(BookingConn, failure))

\* ------------------------------------------------------------- reconcile
\* The store as the reconcile worker may find it: one booking, active or
\* cancelled; every seat available, or booked with a booking_id that is null
\* or names that booking; events.booked_count at any value.
InitReconcile ==
    \E ids \in SeatNoSets, status \in {"active", "cancelled"},
       booked \in SUBSET Seats, byNull \in SUBSET Seats, count \in 0..NumSeats :
        /\ byNull \subseteq booked
        /\ seats = [s \in Seats |->
                       IF s \in booked
                       THEN [AvailableSeat EXCEPT
                               !.status = "booked",
                               !.booking_id = IF s \in byNull THEN NULL ELSE 1]
                       ELSE AvailableSeat]
        /\ seat_holds = <<>>
        /\ bookings = InsertBooking(<<>>, 1, ids, status, 1)
        /\ booked_count = count
        /\ capacity = InitialCapacity
        /\ waitlist = <<>>
        /\ now = 0
        /\ inflight = EmptyBag
        /\ expiry = [pc |-> "idle", holds |-> <<>>, promote |-> FALSE,
                     cands |-> <<>>]
        /\ runs = EmptyBag
        /\ txs = [t \in TxIds |-> NoTx]
        /\ reconcile = IdleReconcile

RECURSIVE SumSeatsOfActiveBookings(_)
\* SELECT SUM(seats) FROM bookings WHERE status = 'active', COALESCE(.., 0)
SumSeatsOfActiveBookings(bs) ==
    IF bs = <<>> THEN 0
    ELSE (IF Head(bs).status = "active" THEN Head(bs).seats ELSE 0)
         + SumSeatsOfActiveBookings(Tail(bs))

\* the rows of the mismatch query: the event, if its booked_count IS DISTINCT
\* FROM the sum, with the sum read as actual
MismatchEvents(count, bs) ==
    IF count # SumSeatsOfActiveBookings(bs)
    THEN <<[booked_count |-> count, actual |-> SumSeatsOfActiveBookings(bs)]>>
    ELSE <<>>

\* seats s LEFT JOIN bookings b ON s.booking_id = b.id
\* WHERE s.status = 'booked' AND (b.id IS NULL OR b.status <> 'active')
OrphanBookedSeats(ss, bs) ==
    {s \in Seats :
        /\ ss[s].status = "booked"
        /\ \/ ss[s].booking_id \notin 1..Len(bs)
           \/ bs[ss[s].booking_id].status # "active"}

\* GREATEST(a, b)
GREATEST(a, b) == IF a >= b THEN a ELSE b

\* fault: the seat is freed but keeps its booking_id
FixOrphanSeat_KeepsBookingId(ss, id) ==
    [s \in Seats |->
        IF s = id THEN [ss[s] EXCEPT !.status = "available"] ELSE ss[s]]

\* UPDATE seats SET status = 'available', booking_id = NULL WHERE id = $1
FixOrphanSeat(ss, id) ==
    [s \in Seats |->
        IF s = id
        THEN [ss[s] EXCEPT !.status = "available", !.booking_id = NULL]
        ELSE ss[s]]

\* UPDATE events SET booked_count = GREATEST(0, booked_count - 1)
DecrementBookedCount(count) == GREATEST(0, count - 1)

\* Reconcile starts reconcileEventCounts: the mismatch query
reconcileEventCountsRead ==
    LET mismatches == MismatchEvents(booked_count, bookings)
    IN  /\ reconcile.pc = "idle"
        /\ reconcile' = [pc |-> IF mismatches = <<>> THEN "orphans" ELSE "counts",
                         mismatches |-> mismatches, orphans |-> <<>>]
        /\ UNCHANGED <<seats, seat_holds, bookings, booked_count, capacity,
                       waitlist, now, inflight, expiry, runs, txs>>

\* reconcileEventCounts: one turn of the loop over the mismatches, a statement
\* outside any transaction that writes the sum as it was read
reconcileEventCountsFix ==
    LET m == Head(reconcile.mismatches)
        rest == Tail(reconcile.mismatches)
    IN  /\ reconcile.pc = "counts"
        /\ booked_count' = m.actual
        /\ reconcile' = [pc |-> IF rest = <<>> THEN "orphans" ELSE "counts",
                         mismatches |-> rest, orphans |-> <<>>]
        /\ UNCHANGED <<seats, seat_holds, bookings, capacity, waitlist, now,
                       inflight, expiry, runs, txs>>

\* reconcileOrphanBookedSeats: the orphan query, its rows in the order of the scan
reconcileOrphanBookedSeatsRead ==
    \E orphans \in ScanOrders(OrphanBookedSeats(seats, bookings)) :
        /\ reconcile.pc = "orphans"
        /\ reconcile' = IF orphans = <<>> THEN IdleReconcile
                        ELSE [pc |-> "seats", mismatches |-> <<>>,
                              orphans |-> orphans]
        /\ UNCHANGED <<seats, seat_holds, bookings, booked_count, capacity,
                       waitlist, now, inflight, expiry, runs, txs>>

\* reconcileOrphanBookedSeats: one turn of the loop, one transaction per seat
reconcileOrphanSeatFix ==
    LET o == Head(reconcile.orphans)
        rest == Tail(reconcile.orphans)
    IN  /\ reconcile.pc = "seats"
        /\ seats' = FixOrphanSeat(seats, o)
        /\ booked_count' = DecrementBookedCount(booked_count)
        /\ reconcile' = IF rest = <<>> THEN IdleReconcile
                        ELSE [reconcile EXCEPT !.orphans = rest]
        /\ UNCHANGED <<seat_holds, bookings, capacity, waitlist, now,
                       inflight, expiry, runs, txs>>

\* Reconcile running alone
NextReconcile ==
    \/ reconcileEventCountsRead
    \/ reconcileEventCountsFix
    \/ reconcileOrphanBookedSeatsRead
    \/ reconcileOrphanSeatFix

SpecReconcile == InitReconcile /\ [][NextReconcile]_vars

\* Reconcile running beside the handlers that write bookings and booked_count
NextReconcileRace ==
    \/ reconcileEventCountsRead
    \/ reconcileEventCountsFix
    \/ reconcileOrphanBookedSeatsRead
    \/ reconcileOrphanSeatFix
    \/ \E k \in Keys, sn \in SeatNoSets : CreateBookingPreCheck(k, sn)
    \/ \E k \in Keys, u \in Users, sn \in SeatNoSets :
            CreateBookingTx(k, u, sn, NULL)
    \/ \E b \in 1..MaxBookings, u \in Users, role \in Roles :
            CancelBooking(b, u, role)
    \/ PromoteLoad

SpecReconcileRace == InitReconcile /\ [][NextReconcileRace]_vars


\* ======================================================================
\* Properties
\* ======================================================================
ActiveBookings == {b \in 1..Len(bookings) : bookings[b].status = "active"}

ActiveHolds == {h \in 1..Len(seat_holds) : seat_holds[h].status = "active"}

BookedSeatIds == UNION {bookings[b].seat_ids : b \in ActiveBookings}

RECURSIVE SumActiveSeats(_)
SumActiveSeats(bs) ==
    IF bs = <<>> THEN 0
    ELSE (IF Head(bs).status = "active" THEN Cardinality(Head(bs).seat_ids) ELSE 0)
         + SumActiveSeats(Tail(bs))

\* C1: no seat id is in the seat_ids of two distinct active bookings, and a
\* CreateBooking transaction that names a seat of an active booking never commits.
C1_NoSeatInTwoActiveBookings ==
    /\ \A a, b \in ActiveBookings :
          a # b => bookings[a].seat_ids \cap bookings[b].seat_ids = {}
    /\ \A k \in Keys, u \in Users, sn \in SeatNoSets, t \in HoldTokens :
          GetSeatsForBookingForUpdate(sn) \cap BookedSeatIds # {}
             => CreateBookingTxReply(DB, u, k, sn, t).code # 201

\* two active bookings stand side by side while a further request is in flight
C1_Witness ==
    /\ Cardinality(ActiveBookings) = 2
    /\ inflight # EmptyBag

\* C2: 0 <= booked_count <= capacity in every committed state.
C2_BookedCountWithinCapacity == 0 <= booked_count /\ booked_count <= capacity

\* C3: booked_count equals the sum of |seat_ids| over the active bookings.
C3_BookedCountIsSumOfActiveBookings == booked_count = SumActiveSeats(bookings)

\* a client booking was cancelled and a promotion booked the freed seat
C3_Witness ==
    \E a, b \in 1..Len(bookings) :
        /\ bookings[a].status = "cancelled"
        /\ bookings[b].status = "active"
        /\ bookings[b].idempotency_key < 0
        /\ booked_count > 0

\* C4: a seat is booked iff its booking_id references an active booking whose
\* seat_ids contain it, and every seat id of an active booking is a booked seat
\* whose booking_id points back to that booking.
C4_BookedSeatsMatchActiveBookings ==
    /\ \A s \in Seats :
          seats[s].status = "booked"
             <=> /\ seats[s].booking_id \in ActiveBookings
                 /\ s \in bookings[seats[s].booking_id].seat_ids
    /\ \A b \in ActiveBookings : \A s \in bookings[b].seat_ids :
          seats[s].status = "booked" /\ seats[s].booking_id = b

\* a seat of a cancelled booking is booked again by a later booking
C4_Witness ==
    \E a, b \in 1..Len(bookings) :
        /\ bookings[a].status = "cancelled"
        /\ b \in ActiveBookings
        /\ bookings[a].seat_ids \cap bookings[b].seat_ids # {}

\* C5: no seat id is in the seat_ids of two distinct active holds, and CreateHold
\* on a set that overlaps an active hold fails with 409 and commits nothing.
C5_NoSeatInTwoActiveHolds ==
    /\ \A g, h \in ActiveHolds :
          g # h => seat_holds[g].seat_ids \cap seat_holds[h].seat_ids = {}
    /\ \A u \in Users, sn \in SeatNoSets :
          (\E h \in ActiveHolds :
              GetSeatsForEventForUpdate(sn) \cap seat_holds[h].seat_ids # {})
             => CreateHoldReply(DB, now, u, sn) = Reply(409, NULL, DB)

\* two active holds stand side by side
C5_Witness ==
    /\ Cardinality(ActiveHolds) = 2
    /\ \A s \in Seats : seats[s].status = "held"

\* C6: a seat is held iff an active hold with expires_at > now lists it. This is
\* the half that does not read the clock: a held seat is listed by an active hold.
C6_HeldSeatHasActiveHold ==
    \A s \in Seats :
        seats[s].status = "held"
           => \E h \in ActiveHolds : s \in seat_holds[h].seat_ids

\* C7: at most one booking row per non-null idempotency key of the event.
C7_OneBookingPerIdempotencyKey ==
    \A a, b \in 1..Len(bookings) :
        (a # b /\ bookings[a].idempotency_key # NULL)
           => bookings[a].idempotency_key # bookings[b].idempotency_key

\* two requests with one key passed the pre-check; one committed, one still waits
C7_Witness ==
    \E b \in 1..Len(bookings) :
        /\ bookings[b].idempotency_key \in Keys
        /\ BagIn(bookings[b].idempotency_key, inflight)

C9_OnlyActiveUnexpiredHoldConverts ==
    [][\A s \in Seats :
          (/\ seats[s].status = "held"
           /\ seats[s].hold_token \in 1..Len(seat_holds)
           /\ \/ seat_holds[seats[s].hold_token].expires_at <= now
              \/ seat_holds[seats[s].hold_token].status # "active")
             => seats'[s].status # "booked"]_vars

\* C10: a hold that is expired or converted never changes status again.
C10_HoldStatusTerminal ==
    [][\A h \in 1..Len(seat_holds) :
          seat_holds[h].status # "active"
             => seat_holds'[h].status = seat_holds[h].status]_vars

\* the booking row a step inserts, when it inserts one
NewBooking == bookings'[Len(bookings')]

\* the step inserts a booking on behalf of a client request
ClientBookingInserted ==
    /\ Len(bookings') = Len(bookings) + 1
    /\ NewBooking.idempotency_key \in Keys

\* the step marks hold h converted
HoldConverted(h) ==
    seat_holds[h].status # "converted" /\ seat_holds'[h].status = "converted"

\* C11: a hold that has a user is converted only by a booking of that user.
C11_HoldConvertedOnlyByOwner ==
    [][\A h \in 1..Len(seat_holds) :
          (HoldConverted(h) /\ seat_holds[h].user_id # NULL)
             => /\ Len(bookings') = Len(bookings) + 1
                /\ NewBooking.user_id = seat_holds[h].user_id]_vars

\* C12: a client booking takes only seats that were held, under a hold token,
\* when the request ran; no client booking takes a seat that was available.
C12_BookingOnlyFromHeldSeats ==
    [][ClientBookingInserted
          => \A s \in NewBooking.seat_ids :
                seats[s].status = "held" /\ seats[s].hold_token # NULL]_vars

\* C13: when a booking converts a hold, the booking's seat_ids are the hold's
\* seat_ids, all of them booked by it, booked_count grows by their number, and
\* no seat is left held under the converted hold's token.
C13_BookingTakesWholeHold ==
    [][\A h \in 1..Len(seat_holds) :
          HoldConverted(h)
             => /\ Len(bookings') = Len(bookings) + 1
                /\ NewBooking.status = "active"
                /\ NewBooking.seat_ids = seat_holds[h].seat_ids
                /\ \A s \in seat_holds[h].seat_ids :
                      /\ seats'[s].status = "booked"
                      /\ seats'[s].booking_id = Len(bookings')
                /\ booked_count'
                      = booked_count + Cardinality(seat_holds[h].seat_ids)
                /\ \A s \in Seats :
                      ~(seats'[s].status = "held" /\ seats'[s].hold_token = h)]_vars

\* C14: CreateHold succeeds exactly when every requested seat_no is a seat of
\* the event and every such seat is available (held, booked and blocked seats
\* refuse); on success exactly those seats become held under one fresh token and
\* one expires_at, listed by one new active hold, and nothing else changes; on
\* 404 or 409 nothing changes.
C14_CreateHoldAllOrNothing ==
    /\ \A u \in Users, sn \in RequestSeatNos :
          LET r == CreateHoldReply(DB, now, u, sn)
              found == GetSeatsForEventForUpdate(sn)
              hold == r.db.seat_holds[r.id]
          IN  /\ r.code \in {201, 404, 409}
              /\ r.code = 404 <=> GetSeatNosByIds(found) # sn
              /\ r.code = 201 <=> /\ GetSeatNosByIds(found) = sn
                                  /\ \A s \in found : seats[s].status = "available"
              /\ r.code # 201 => r.db = DB
              /\ r.code = 201 =>
                    /\ r.id \notin 1..Len(seat_holds)
                    /\ \A s \in Seats : seats[s].hold_token # r.id
                    /\ r.db.seat_holds = Append(seat_holds, hold)
                    /\ hold = [user_id |-> u, seat_ids |-> found,
                               expires_at |-> now + defaultHoldTTLSeconds,
                               status |-> "active"]
                    /\ \A s \in found :
                          r.db.seats[s] = [status |-> "held",
                                           booking_id |-> seats[s].booking_id,
                                           hold_token |-> r.id,
                                           hold_expires_at |-> hold.expires_at]
                    /\ \A s \in Seats \ found : r.db.seats[s] = seats[s]
                    /\ r.db.bookings = bookings
                    /\ r.db.booked_count = booked_count
                    /\ r.db.waitlist = waitlist
    /\ \A u \in Users, sn \in SeatNoSets, s \in Seats :
          LET blocked == [DB EXCEPT !.seats[s].status = "blocked"]
          IN  SeatNo(s) \in sn
                 => CreateHoldReply(blocked, now, u, sn) = Reply(409, NULL, blocked)

\* a second hold was created and holds its seat next to a booked seat
C14_Witness ==
    /\ \E s \in Seats : seats[s].status = "booked"
    /\ \E s \in Seats : seats[s].status = "held" /\ seats[s].hold_token = 2
    /\ seat_holds[2].status = "active"

\* C15: a CreateHold request for seats of the event ends with 201 or 409.
C15_CreateHoldNeverServerError ==
    \A t \in TxIds :
        (txs[t].kind = "CreateHold" /\ txs[t].code # 0)
           => txs[t].code \in {201, 409}

\* C16: CancelBooking by a caller who is neither the booking's user nor an admin
\* answers 403 and changes nothing, also on a booking that has no user; whenever
\* CancelBooking changes anything the caller is the booking's user or an admin.
C16_CancelOnlyByOwnerOrAdmin ==
    \A b \in 1..Len(bookings), u \in Callers, role \in Roles :
        LET r == CancelBookingReply(DB, b, u, role)
            nouser == [DB EXCEPT !.bookings[b].user_id = NULL]
        IN  /\ (bookings[b].user_id # u /\ role # "admin")
                  => r = Reply(403, NULL, DB)
            /\ r.db # DB => (bookings[b].user_id = u \/ role = "admin")
            /\ role # "admin"
                  => CancelBookingReply(nouser, b, u, role) = Reply(403, NULL, nouser)

\* bookings of two different callers exist, one of them cancelled, one active
C16_Witness ==
    \E a, b \in 1..Len(bookings) :
        /\ bookings[a].user_id # bookings[b].user_id
        /\ bookings[a].status = "cancelled"
        /\ bookings[b].status = "active"

\* C17: CancelBooking on a booking that is not active changes nothing and
\* answers 409 to its user or an admin; no step changes a booking that is not
\* active; and every step that lowers booked_count cancels exactly one active
\* booking and lowers booked_count by that booking's seats, so of two
\* cancellations of one booking only the first takes effect.
C17_CancelExactlyOnce ==
    /\ [](\A b \in 1..Len(bookings), u \in Users, role \in Roles :
             bookings[b].status # "active"
                => LET r == CancelBookingReply(DB, b, u, role)
                   IN  /\ r.db = DB
                       /\ r.code \in {403, 409}
                       /\ (bookings[b].user_id = u \/ role = "admin")
                             => r.code = 409)
    /\ [][/\ \A b \in 1..Len(bookings) :
              bookings[b].status # "active" => bookings'[b] = bookings[b]
          /\ booked_count' < booked_count
                => \E b \in 1..Len(bookings) :
                      /\ bookings[b].status = "active"
                      /\ bookings'[b].status = "cancelled"
                      /\ booked_count'
                            = booked_count - Cardinality(bookings[b].seat_ids)
                      /\ \A c \in 1..Len(bookings) :
                            c # b => bookings'[c] = bookings[c]]_vars

\* a cancelled booking whose user asks to cancel it again, next to an active one
C17_Witness ==
    \E a, b \in 1..Len(bookings) :
        /\ bookings[a].status = "cancelled"
        /\ bookings[b].status = "active"
        /\ CancelBookingReply(DB, a, bookings[a].user_id, "user").code = 409

\* C18: when a step cancels a booking, every seat of the booking is available
\* with booking_id, hold_token and hold_expires_at null afterwards, and in that
\* state CreateHold on those seats succeeds and CreateBooking with the new
\* hold's token and an unused key then succeeds.
C18_CancelledSeatsBookableAgain ==
    [][\A b \in 1..Len(bookings) :
          (bookings[b].status = "active" /\ bookings'[b].status = "cancelled")
             => LET ids == bookings[b].seat_ids
                    sn == GetSeatNosByIds(ids)
                IN  /\ \A s \in ids : seats'[s] = AvailableSeat
                    /\ \A u \in Users :
                          LET h == CreateHoldReply(DB', now', u, sn)
                          IN  /\ h.code = 201
                              /\ \A k \in Keys :
                                    CreateBookingPreCheckReply(h.db, k, sn).code = 0
                                       => CreateBookingTxReply(h.db, u, k, sn,
                                                               h.id).code = 201]_vars

\* a booking of two seats was cancelled and both seats are available
C18_Witness ==
    \E b \in 1..Len(bookings) :
        /\ bookings[b].status = "cancelled"
        /\ Cardinality(bookings[b].seat_ids) = 2
        /\ \A s \in bookings[b].seat_ids : seats[s] = AvailableSeat

\* the larger of two integers
Max(a, b) == IF a >= b THEN a ELSE b

\* C19: CancelBooking of an active booking of n seats by its user or an admin
\* commits and sets booked_count to max(0, booked_count - n), also when
\* booked_count < n beforehand.
C19_CancelClampsBookedCount ==
    \A b \in 1..Len(bookings), u \in Callers, role \in Roles :
        (bookings[b].status = "active"
            /\ (bookings[b].user_id = u \/ role = "admin"))
           => LET r == CancelBookingReply(DB, b, u, role)
                  n == Cardinality(bookings[b].seat_ids)
              IN  /\ r.code = 200
                  /\ r.db.bookings[b].status = "cancelled"
                  /\ r.db.booked_count = Max(0, booked_count - n)

\* every seat of hold h is held under h's token
HoldIntact(h) ==
    \A s \in seat_holds[h].seat_ids :
        seats[s].status = "held" /\ seats[s].hold_token = h

\* C20: the expiry of a hold that was never booked is one transaction: in
\* every committed state an active hold still has all its seats, and a step
\* that expires such a hold or makes one of its seats available expires the
\* hold, makes all its seats available with null hold fields, and only does
\* so once expires_at has passed.
C20_ExpiryAllOrNothing ==
    /\ [](\A h \in ActiveHolds : HoldIntact(h))
    /\ [][\A h \in ActiveHolds :
            (\/ seat_holds'[h].status = "expired"
             \/ \E s \in seat_holds[h].seat_ids : seats'[s].status = "available")
               => /\ seat_holds'[h].status = "expired"
                  /\ \A s \in seat_holds[h].seat_ids : seats'[s] = AvailableSeat
                  /\ seat_holds[h].expires_at <= now]_vars

\* C20 witness: a hold of two seats was expired after its time and both its
\* seats are available with null hold fields.
C20_Witness ==
    \E h \in 1..Len(seat_holds) :
        /\ seat_holds[h].status = "expired"
        /\ Cardinality(seat_holds[h].seat_ids) >= 2
        /\ seat_holds[h].expires_at <= now
        /\ \A s \in seat_holds[h].seat_ids : seats[s] = AvailableSeat

\* C21: a promotion run stops at the first entry it cannot promote.  An entry
\* still waiting ahead of c was tried earlier in the run that now tries c, so
\* a step promotes entry c only when no entry ahead of c is still waiting.
C21_PromotionStopsAtFirstFailure ==
    [][\A c \in 1..Len(waitlist) :
          (waitlist[c].status = "waiting" /\ waitlist'[c].status = "promoted")
             => \A a \in 1..Len(waitlist) :
                   WaitsBefore(waitlist, a, c) => waitlist[a].status # "waiting"]_vars

\* C22: a step that promotes a waiting entry asking for n seats inserts one
\* active booking of the entry's user over exactly n seats that were available,
\* books those seats under it, leaves every other seat alone and adds n to
\* booked_count; and a promotion transaction that fails commits nothing, so
\* the entry stays waiting.
C22_PromotionCommitsWhole ==
    /\ [](\A c \in 1..Len(waitlist) :
            LET r == PromoteCandidateReply(DB, c)
            IN  r.code # 201 => r.db = DB)
    /\ [][\A c \in 1..Len(waitlist) :
            (waitlist[c].status = "waiting" /\ waitlist'[c].status = "promoted")
               => LET n == waitlist[c].requested_seats
                      id == Len(bookings')
                      ids == bookings'[id].seat_ids
                  IN  /\ id = Len(bookings) + 1
                      /\ bookings'[id].status = "active"
                      /\ bookings'[id].user_id = waitlist[c].user_id
                      /\ bookings'[id].seats = n
                      /\ Cardinality(ids) = n
                      /\ \A s \in ids : /\ seats[s].status = "available"
                                         /\ seats'[s].status = "booked"
                                         /\ seats'[s].booking_id = id
                      /\ \A s \in Seats \ ids : seats'[s] = seats[s]
                      /\ \A b \in 1..Len(bookings) : bookings'[b] = bookings[b]
                      /\ booked_count' = booked_count + n]_vars

\* C22 witness: the second caller's entry was promoted into an active booking of
\* the freed seat while the other seat stayed held
C22_Witness ==
    \E c \in 1..Len(waitlist), b \in ActiveBookings :
        /\ waitlist[c].status = "promoted"
        /\ waitlist[c].user_id = 2
        /\ bookings[b].user_id = 2
        /\ bookings[b].idempotency_key < 0
        /\ \E s \in Seats : seats[s].status = "held"

\* C23: no user has two waitlist entries for the event, and JoinWaitlist by a
\* user who already has an entry is answered 409 and commits nothing.
C23_OneWaitlistEntryPerUser ==
    /\ \A v, w \in 1..Len(waitlist) :
          v # w => waitlist[v].user_id # waitlist[w].user_id
    /\ \A u \in Callers, n \in 1..MaxRequested :
          (\E w \in 1..Len(waitlist) : waitlist[w].user_id = u)
             => JoinWaitlistReply(DB, u, n) = Reply(409, NULL, DB)

\* C24: the increment of booked_count by CreateBooking or by a promotion takes
\* effect only if the new value is within capacity: no step raises booked_count
\* above capacity, and a step that inserts a booking found room for its seats.
C24_IncrementGuardedByCapacity ==
    [][/\ booked_count' > booked_count => booked_count' <= capacity
       /\ Len(bookings') > Len(bookings)
             => booked_count + bookings'[Len(bookings')].seats <= capacity]_vars

RECURSIVE Doubled(_, _)
\* n doubled k times
Doubled(n, k) == IF k = 0 THEN n ELSE 2 * Doubled(n, k - 1)

\* the CreateBooking request on the handler's connection, inside the loop or answered
BookingRequest == txs[BookingConn]

C26_IdempotencyCollision ==
    \A b \in 1..Len(bookings) :
        bookings[b].idempotency_key \in Keys
           => /\ \A sn \in RequestSeatNos :
                    sn # GetSeatNosByIds(bookings[b].seat_ids)
                       => CreateBookingPreCheckReply(DB, bookings[b].idempotency_key, sn)
                          = Reply(409, b, DB)
              /\ \A u \in Users, sn \in RequestSeatNos, t \in HoldTokens :
                    LET r == CreateBookingTxReply(DB, u, bookings[b].idempotency_key,
                                                  sn, t)
                    IN  r.code # 201 /\ r.db = DB

\* C26 witness: a booking of both seats under a client's key was cancelled, its
\* seats are free again, and a request with that key for one of them collides
C26_Witness ==
    \E b \in 1..Len(bookings) :
        /\ bookings[b].idempotency_key \in Keys
        /\ bookings[b].status = "cancelled"
        /\ bookings[b].seat_ids = Seats
        /\ \A s \in Seats : seats[s].status = "available"
        /\ CreateBookingPreCheckReply(DB, bookings[b].idempotency_key, {1}).code = 409

\* C27: a pass of CreateBooking commits everything or nothing.  A pass that is
\* not answered 201 (a refusal, an error of the store at any statement, a
\* rollback for another pass) leaves seats, holds, bookings and booked_count
\* as they were; and whenever a booking row appears, the same step shows its
\* seats booked under it and booked_count raised by their number.
C27_CreateBookingAllOrNothing ==
    [][/\ (Open(BookingConn) /\ BookingRequest.kind = "CreateBooking"
              /\ BookingRequest' # BookingRequest /\ BookingRequest'.code # 201)
            => UNCHANGED <<seats, seat_holds, bookings, booked_count, waitlist>>
       /\ Len(bookings') > Len(bookings)
            => LET id == Len(bookings')
                   ids == bookings'[id].seat_ids
               IN  /\ id = Len(bookings) + 1
                   /\ BookingRequest'.code = 201
                   /\ bookings'[id].status = "active"
                   /\ ids # {}
                   /\ \A s \in ids : /\ seats'[s].status = "booked"
                                      /\ seats'[s].booking_id = id
                   /\ booked_count' = booked_count + Cardinality(ids)
                   /\ BookingRequest.hold # NULL
                        => seat_holds'[BookingRequest.hold].status = "converted"]_vars

\* C27 witness: a pass was rolled back after a failure of the store and the
\* request is about to make another; the hold it presents is still active, its
\* seats are still held, and no booking exists
C27_Witness ==
    /\ Open(BookingConn)
    /\ BookingRequest.kind = "CreateBooking"
    /\ BookingRequest.attempt >= 1
    /\ BookingRequest.hold \in ActiveHolds
    /\ HoldIntact(BookingRequest.hold)
    /\ BookingRequest.seatNos = seat_holds[BookingRequest.hold].seat_ids
    /\ bookings = <<>>
    /\ booked_count = 0

\* C28: every open transaction takes its seat row locks in ascending id order
\* (each row it has is below each row it still has to take, and those come in
\* ascending order), and no transaction waits in a cycle of waiting transactions.
C28_LocksAscendingNoDeadlock ==
    \A t \in TxIds :
        Open(t)
           => /\ \A i, j \in 1..Len(txs[t].todo) :
                    i < j => txs[t].todo[i] < txs[t].todo[j]
              /\ \A s \in txs[t].held : \A i \in 1..Len(txs[t].todo) :
                    s < txs[t].todo[i]
              /\ ~InDeadlock(t)

\* the bookings whose cancellation has committed
CancelledBookings == {b \in 1..Len(bookings) : bookings[b].status = "cancelled"}

\* C29: a promotion run is started only by a step in which a cancellation
\* commits, one run per cancellation; the run starts at its beginning, and the
\* cancelling step itself promotes nobody, so the caller is answered before
\* the run has done anything.
C29_PromotionAfterCancelCommit ==
    /\ [](BagCardinality(runs) <= Cardinality(CancelledBookings))
    /\ [][BagCardinality(runs') > BagCardinality(runs)
            => /\ \E b \in ActiveBookings : bookings'[b].status = "cancelled"
               /\ runs' = runs (+) SetToBag({SpawnedRun})
               /\ waitlist' = waitlist
               /\ Len(bookings') = Len(bookings)]_vars
    /\ [][(\A b \in ActiveBookings : bookings'[b].status = "active")
            => BagCardinality(runs') <= BagCardinality(runs)]_vars

\* C29 witness: a cancellation has committed and freed a seat, its run is
\* started but has not read the waitlist yet, and an entry is waiting
C29_Witness ==
    /\ BagIn(SpawnedRun, runs)
    /\ CancelledBookings # {}
    /\ \E w \in 1..Len(waitlist) : waitlist[w].status = "waiting"
    /\ \E s \in Seats : seats[s].status = "available"

\* C30: when the worker leaves the hold at the head of its list, either that
\* hold is now expired or nothing was committed (the hold and its seats are as
\* before); either way the loop goes on with the rest of the list, and only
\* after the last hold does ExpireHolds move on, a failure adding nothing to
\* the events to promote.
C30_FailedHoldIsSkipped ==
    [][(expiry.pc = "holds" /\ expiry' # expiry)
         => LET h == Head(expiry.holds)
                rest == Tail(expiry.holds)
                done == seat_holds'[h].status = "expired"
            IN  /\ done \/ UNCHANGED <<seats, seat_holds, bookings, booked_count,
                                        waitlist>>
                /\ expiry'.promote = (expiry.promote \/ done)
                /\ IF rest = <<>>
                   THEN expiry'.pc = "load"
                   ELSE expiry'.pc = "holds" /\ expiry'.holds = rest]_vars

\* C30 witness: at the end of a tick one due hold is still active with its seat
\* held, because its transaction failed, and the other hold of the tick is expired
C30_Witness ==
    \E g, h \in 1..Len(seat_holds) :
        /\ g # h
        /\ expiry.pc = "load"
        /\ seat_holds[g].status = "active"
        /\ seat_holds[g].expires_at <= now
        /\ HoldIntact(g)
        /\ seat_holds[h].status = "expired"
        /\ \A s \in seat_holds[h].seat_ids : seats[s] = AvailableSeat

\* the connections on which the expiry worker has a transaction open
WorkerTxs == {t \in TxIds : Open(t) /\ txs[t].kind = "processSingleHold"}

\* C31, pool variant (internal/workers): in a tick the worker has at most one
\* hold's transaction open, and only
\* rows of the hold at the head of its list are locked by it; promotion starts
\* only when the list is used up and no hold transaction is open, only for an
\* event of which a hold was expired, and once: from the promotion stage the
\* tick only moves forward to its end.
C31_PromotionAfterAllHolds ==
    /\ [](/\ Cardinality(WorkerTxs) <= 1
          /\ \A t \in WorkerTxs :
                /\ expiry.pc = "holds"
                /\ txs[t].hold = Head(expiry.holds)
                /\ LockedBy(t) \subseteq seat_holds[txs[t].hold].seat_ids
          /\ expiry.pc \in {"load", "loop"}
                => expiry.holds = <<>> /\ WorkerTxs = {}
          /\ expiry.pc = "loop" => expiry.promote /\ expiry.cands # <<>>
          /\ expiry.promote
                => \E h \in 1..Len(seat_holds) : seat_holds[h].status = "expired")
    /\ [][/\ (expiry.pc = "load" /\ expiry' # expiry)
             => /\ expiry'.pc \in {"loop", "idle"}
                /\ expiry'.pc = "loop" <=>
                      (expiry.promote /\ GetWaitingListByEvent(waitlist) # <<>>)
                /\ UNCHANGED <<seats, seat_holds, bookings, booked_count, waitlist>>
          /\ (expiry.pc = "loop" /\ expiry' # expiry)
             => \/ expiry'.pc = "idle" /\ Len(expiry.cands) = 1
                \/ expiry'.pc = "loop" /\ expiry'.cands = Tail(expiry.cands)
          /\ (expiry.pc # "holds" /\ expiry'.pc = "load") => expiry' = expiry]_vars

\* C31 witness, pool variant: the tick is in its promotion stage with a waiter to try, after
\* one hold was expired and the other, still due and active, had failed
C31_Witness ==
    \E g, h \in 1..Len(seat_holds) :
        /\ expiry.pc = "loop"
        /\ expiry.cands # <<>>
        /\ seat_holds[h].status = "expired"
        /\ seat_holds[g].status = "active"
        /\ seat_holds[g].expires_at <= now

C32_ReconcileRestoresBookedCount ==
    [][(reconcile.pc # "idle" /\ reconcile'.pc = "idle")
          => booked_count' = SumActiveSeats(bookings')]_vars

\* the seats the orphan query selects in the current state
Orphans == OrphanBookedSeats(seats, bookings)

C39_CountFixWritesCurrentSum ==
    [][(reconcile.pc = "counts" /\ reconcile' # reconcile)
          => booked_count' = SumActiveSeats(bookings')]_vars

\* the requests that present the token of hold h1 for seats of h1, after h1
\* expired and one of the seats named was held again under the active hold h2
StaleTokenRequests ==
    {q \in [h1 : 1..Len(seat_holds), h2 : 1..Len(seat_holds), seatNos : SeatNoSets] :
        /\ q.h1 # q.h2
        /\ seat_holds[q.h1].status = "expired"
        /\ seat_holds[q.h2].status = "active"
        /\ q.seatNos \subseteq seat_holds[q.h1].seat_ids
        /\ \E s \in q.seatNos :
              /\ seats[s].status = "held"
              /\ seats[s].hold_token = q.h2}

\* C34: a CreateBooking transaction that presents the token of an expired hold
\* for seats since held again under another hold answers 409 and commits
\* nothing: the other hold, its seats, the bookings and booked_count stay as
\* they are.
C34_StaleTokenRefused ==
    \A q \in StaleTokenRequests, k \in Keys, u \in Users :
        LET r == CreateBookingTxReply(DB, u, k, q.seatNos, q.h1)
        IN  /\ r.code = 409
            /\ r.db = DB

\* C34 witness: such a request is past its pre-check and about to run its
\* transaction
C34_Witness ==
    /\ StaleTokenRequests # {}
    /\ inflight # EmptyBag

\* the holds the tick of the expiry worker still has to process
HoldsToProcess == {expiry.holds[k] : k \in 1..Len(expiry.holds)}

\* C35: the tick's read takes exactly the holds that are active and due at
\* that moment; every hold the tick has in hand is past its expires_at; and a
\* step that marks a hold expired, or makes available a seat held under its
\* token, is taken on a hold of the tick whose expires_at has passed.
C35_OnlyDueHoldsExpire ==
    /\ [](\A h \in HoldsToProcess : seat_holds[h].expires_at <= now)
    /\ [][/\ (expiry.pc = "idle" /\ expiry'.pc = "holds")
             => HoldsToProcess' =
                   {h \in 1..Len(seat_holds) :
                       /\ seat_holds[h].status = "active"
                       /\ seat_holds[h].expires_at <= now}
          /\ \A h \in 1..Len(seat_holds) :
                (\/ /\ seat_holds[h].status # "expired"
                    /\ seat_holds'[h].status = "expired"
                 \/ \E s \in Seats :
                       /\ seats[s].status = "held"
                       /\ seats[s].hold_token = h
                       /\ seats'[s].status = "available")
                   => /\ seat_holds[h].expires_at <= now
                      /\ expiry.pc = "holds"
                      /\ h = Head(expiry.holds)]_vars

\* C35 witness: one hold was expired by the worker while another, whose
\* expires_at is still in the future, is active with its seats held
C35_Witness ==
    \E h, g \in 1..Len(seat_holds) :
        /\ seat_holds[h].status = "expired"
        /\ seat_holds[g].status = "active"
        /\ seat_holds[g].expires_at > now
        /\ HoldIntact(g)
        /\ expiry.pc # "holds"

\* C36: the step of the expiry worker that processes hold h changes no seat
\* but those listed in h that carry h's token, which become available, and no
\* hold row but h's own; seats that are booked or held under another token,
\* the bookings, booked_count and the waitlist are as before.
C36_ExpiryTouchesOnlyItsHold ==
    [][(expiry.pc = "holds" /\ expiry' # expiry)
          => LET h == Head(expiry.holds)
             IN  /\ \A s \in Seats :
                       IF s \in seat_holds[h].seat_ids /\ seats[s].hold_token = h
                       THEN seats'[s].status = "available"
                       ELSE seats'[s] = seats[s]
                 /\ \A s \in Seats :
                       (\/ seats[s].status = "booked"
                        \/ seats[s].status = "held" /\ seats[s].hold_token # h)
                          => seats'[s] = seats[s]
                 /\ \A g \in 1..Len(seat_holds) :
                       g # h => seat_holds'[g] = seat_holds[g]
                 /\ Len(seat_holds') = Len(seat_holds)
                 /\ UNCHANGED <<bookings, booked_count, waitlist>>]_vars

\* C36 witness: the last hold of a tick was processed at its expiry time while
\* one of its seats was booked by an active booking; the seat is still booked
C36_Witness ==
    \E h \in 1..Len(seat_holds), b \in ActiveBookings :
        /\ expiry.pc = "load"
        /\ seat_holds[h].status = "expired"
        /\ seat_holds[h].expires_at = now
        /\ \E s \in seat_holds[h].seat_ids \cap bookings[b].seat_ids :
              /\ seats[s].status = "booked"
              /\ seats[s].booking_id = b

\* the bookings made by the promoter, which carry the keys it generates
PromotionBookings == {b \in 1..Len(bookings) : bookings[b].idempotency_key < 0}

\* the waitlist entries that were promoted
PromotedEntries == {c \in 1..Len(waitlist) : waitlist[c].status = "promoted"}

\* C37: there are never more bookings made by promotion than entries
\* promoted, that is, no entry was given a booking twice
C37_EntryPromotedAtMostOnce ==
    Cardinality(PromotionBookings) <= Cardinality(PromotedEntries)

\* C40: no two waitlist entries of the event have the same position
C40_PositionsDistinct ==
    \A w, v \in 1..Len(waitlist) :
        w # v => waitlist[w].position # waitlist[v].position

\* the held seats whose hold expires within the time the clock covers
HeldAndDue(s) ==
    seats[s].status = "held" /\ seats[s].hold_expires_at <= MaxNow

\* C38: every seat that is held leaves that status, by a booking or by the
\* expiry of its hold
C38_HeldSeatEventuallyLeaves ==
    \A s \in Seats : HeldAndDue(s) ~> (seats[s].status # "held")

\* the same for the seats whose hold is not converted while they are held
UnconvertedHoldEventuallyLeaves ==
    \A s \in Seats :
        HeldAndDue(s)
          ~> (\/ seats[s].status # "held"
              \/ seat_holds[seats[s].hold_token].status = "converted")

====
